---- MODULE Spec2Model ----
(* Model of tern/analyze/docker/dockerfile.py: the Dockerfile object, the   *)
(* ENV/ARG substitution passes, the FROM pinning, the ADD annotation and    *)
(* the locked-file assembler.  A Python str is a sequence of one-character  *)
(* strings; a Python dict is a sequence of <<key, value>> pairs in          *)
(* insertion order (the order in which dict.items() yields them).           *)
EXTENDS Integers, Sequences, FiniteSets, TLC

VARIABLES structure, parent_images, envs, prev_env, registry, git_comment,
          lastop, err, log, queried, arg_dict, output,
          pre_structure, pre_parents, mutated, rewritten, nops

vars == <<structure, parent_images, envs, prev_env, registry, git_comment,
          lastop, err, log, queried, arg_dict, output,
          pre_structure, pre_parents, mutated, rewritten, nops>>

(* Number of operations applied to one Dockerfile object. *)
MaxOps == 4

----------------------------------------------------------------------------
(* Python str primitives *)

Str(c) == <<c>>

StartsWith(s, p) == Len(s) >= Len(p) /\ SubSeq(s, 1, Len(p)) = p

(* p in s *)
Contains(s, p) == \E i \in 1..(Len(s) - Len(p) + 1) : SubSeq(s, i, i + Len(p) - 1) = p

RECURSIVE Replace(_, _, _)
(* str.replace(p, r) for a non-empty p: leftmost, non-overlapping, one scan *)
Replace(s, p, r) ==
  IF Len(s) < Len(p) THEN s
  ELSE IF SubSeq(s, 1, Len(p)) = p
       THEN r \o Replace(SubSeq(s, Len(p) + 1, Len(s)), p, r)
       ELSE <<s[1]>> \o Replace(Tail(s), p, r)

RECURSIVE ReplaceFirst(_, _, _)
(* str.replace(p, r, 1) for a non-empty p *)
ReplaceFirst(s, p, r) ==
  IF Len(s) < Len(p) THEN s
  ELSE IF SubSeq(s, 1, Len(p)) = p
       THEN r \o SubSeq(s, Len(p) + 1, Len(s))
       ELSE <<s[1]>> \o ReplaceFirst(Tail(s), p, r)

RECURSIVE SplitOn(_, _)
(* str.split(c) / re.split('[..]') on a set of one-character separators *)
SplitOn(s, seps) ==
  IF \A i \in 1..Len(s) : s[i] \notin seps THEN <<s>>
  ELSE LET k == CHOOSE i \in 1..Len(s) :
                  s[i] \in seps /\ \A j \in 1..(i - 1) : s[j] \notin seps
       IN  <<SubSeq(s, 1, k - 1)>> \o SplitOn(SubSeq(s, k + 1, Len(s)), seps)

RECURSIVE LStrip(_, _)
LStrip(s, c) == IF s # <<>> /\ s[1] = c THEN LStrip(Tail(s), c) ELSE s

RECURSIVE RStrip(_, _)
RStrip(s, c) ==
  IF s # <<>> /\ s[Len(s)] = c THEN RStrip(SubSeq(s, 1, Len(s) - 1), c) ELSE s

(* str.strip(c) *)
Strip(s, c) == LStrip(RStrip(s, c), c)

Lower(c) == IF c = "A" THEN "a" ELSE IF c = "S" THEN "s" ELSE c

LowerStr(s) == [i \in 1..Len(s) |-> Lower(s[i])]

(* re.split(" as", s, flags=re.IGNORECASE)[0] *)
SplitAs(s) ==
  LET pat  == <<" ", "a", "s">>
      hits == {i \in 1..(Len(s) - 2) : LowerStr(SubSeq(s, i, i + 2)) = pat}
  IN  IF hits = {} THEN s
      ELSE SubSeq(s, 1, (CHOOSE i \in hits : \A j \in hits : i <= j) - 1)

----------------------------------------------------------------------------
(* Python dict primitives *)

DictKeys(d) == {d[i][1] : i \in 1..Len(d)}

DictGet(d, k) == d[CHOOSE i \in 1..Len(d) : d[i][1] = k][2]

(* d[k] = v: an existing key keeps its position *)
DictSet(d, k, v) ==
  IF k \in DictKeys(d)
  THEN [i \in 1..Len(d) |-> IF d[i][1] = k THEN <<k, v>> ELSE d[i]]
  ELSE Append(d, <<k, v>>)

----------------------------------------------------------------------------
(* Program text *)

FROM == <<"F", "R", "O", "M">>
ARG == <<"A", "R", "G">>
ADD == <<"A", "D", "D">>
RUN == <<"R", "U", "N">>
ENV == <<"E", "N", "V">>
COPY == <<"C", "O", "P", "Y">>
COMMENT == <<"C", "O", "M", "M", "E", "N", "T">>

tag_separator == <<":">>

latest == <<"l", "a", "t", "e", "s", "t">>

chown == <<"-", "-", "c", "h", "o", "w", "n">>

NL == <<"\n">>

SP == <<" ">>

(* the text a mutation writes: instruction + ' ' + value + '\n' *)
Line(instruction, value) == instruction \o SP \o value \o NL

----------------------------------------------------------------------------
(* Collaborators *)

(* general.parse_image_string: tokens = re.split('[@:]', image_string) *)
parse_image_string(image_string) ==
  LET tokens == SplitOn(image_string, {"@", ":"})
      img(n, t, dt, d) == [ok |-> TRUE, name |-> n, tag |-> t,
                           digest_type |-> dt, digest |-> d]
  IN  IF Len(tokens) = 1 THEN img(tokens[1], <<>>, <<>>, <<>>)
      ELSE IF Len(tokens) = 2 THEN img(tokens[1], tokens[2], <<>>, <<>>)
      ELSE IF Len(tokens) = 3 /\ Contains(image_string, <<"@">>)
           THEN img(tokens[1], <<>>, tokens[2], tokens[3])
      ELSE IF Len(tokens) = 4 THEN img(tokens[1], tokens[2], tokens[3], tokens[4])
      ELSE [ok |-> FALSE, name |-> <<>>, tag |-> <<>>,
            digest_type |-> <<>>, digest |-> <<>>]

(* container.get_image(name:tag): the handle of a known image, else None *)
get_image(reg, name_tag) == name_tag \in reg

(* container.get_image_digest(image): "name@digest_type:digest" *)
get_image_digest(name) == name \o <<"@", "s", ":", "d">>

(* common.check_git_src(dockerfile_path): the provenance comment *)
check_git_src(comment) == comment

----------------------------------------------------------------------------
(* Variable resolver *)

RECURSIVE replace_env(_, _)
replace_env(key_value_dict, df_structure_dict) ==
  IF key_value_dict = <<>> THEN df_structure_dict
  ELSE LET key     == Head(key_value_dict)[1]
           val     == Head(key_value_dict)[2]
           envvar1 == <<"$">> \o key
           envvar2 == <<"$", "{">> \o key \o <<"}">>
       IN  replace_env(Tail(key_value_dict),
             [df_structure_dict EXCEPT
                !.content = Replace(Replace(@, envvar1, val), envvar2, val),
                !.value   = Replace(Replace(@, envvar1, val), envvar2, val)])

replace_all(key_value_dict, st) ==
  IF key_value_dict # <<>>
  THEN [i \in 1..Len(st) |-> replace_env(key_value_dict, st[i])]
  ELSE st

expand_vars(st, e, pe) == replace_all(pe, replace_all(e, st))

RECURSIVE get_arg_dict_Scoped(_, _)
(* the scan stops at the first FROM: only the ARGs declared before it count *)
get_arg_dict_Scoped(st, d) ==
  IF st = <<>> \/ Head(st).instruction = FROM THEN d
  ELSE LET instruction_desc == Head(st)
           instruction_value_split == SplitOn(instruction_desc.value, {"="})
       IN  IF instruction_desc.instruction = ARG /\ Len(instruction_value_split) = 2
           THEN get_arg_dict_Scoped(Tail(st),
                  DictSet(d, Strip(instruction_value_split[1], " "),
                             Strip(instruction_value_split[2], " ")))
           ELSE get_arg_dict_Scoped(Tail(st), d)

RECURSIVE get_arg_dict(_, _)
get_arg_dict(st, d) ==
  IF st = <<>> THEN d
  ELSE LET instruction_desc == Head(st)
           instruction_value_split == SplitOn(instruction_desc.value, {"="})
       IN  IF instruction_desc.instruction = ARG /\ Len(instruction_value_split) = 2
           THEN get_arg_dict(Tail(st),
                  DictSet(d, Strip(instruction_value_split[1], " "),
                             Strip(instruction_value_split[2], " ")))
           ELSE get_arg_dict(Tail(st), d)

RECURSIVE update_parent_images(_)
update_parent_images(st) ==
  IF st = <<>> THEN <<>>
  ELSE IF Head(st).instruction = FROM
       THEN <<SplitAs(Head(st).value)>> \o update_parent_images(Tail(st))
       ELSE update_parent_images(Tail(st))

expand_arg(st) ==
  LET d == get_arg_dict(st, <<>>)
      s == replace_all(d, st)
  IN  [structure |-> s, parent_images |-> update_parent_images(s), arg_dict |-> d]

----------------------------------------------------------------------------
(* Image reference resolver *)

parse_from_image(parents) == [i \in 1..Len(parents) |-> parse_image_string(parents[i])]

(* the already-pinned check left out *)
needs_pull_Always(img) == TRUE

(* line 170: don't re-pull digest if already available *)
needs_pull(img) == img.digest_type = <<>> /\ img.digest = <<>>

RECURSIVE pull_images(_, _, _, _)
(* lines 168-179; acc carries parent_images, the get_image calls, the log *)
pull_images(i, images, reg, acc) ==
  IF i > Len(images) \/ acc.err # "none" THEN acc
  ELSE LET img == images[i]
       IN  IF ~img.ok
           THEN [acc EXCEPT !.err = "TypeError"]
           ELSE IF ~needs_pull(img)
           THEN pull_images(i + 1, images, reg, acc)
           ELSE LET tag == IF img.tag = <<>> THEN latest ELSE img.tag
                    ref == img.name \o tag_separator \o tag
                    asked == [acc EXCEPT !.queried = @ \cup {i}]
                IN  IF get_image(reg, ref)
                    THEN pull_images(i + 1, images, reg,
                           [asked EXCEPT !.parents[i] = get_image_digest(img.name)])
                    ELSE pull_images(i + 1, images, reg,
                           [asked EXCEPT !.log = Append(@,
                              [msg |-> "pin", arg |-> acc.parents[i]])])

(* the number of FROM instructions among the first n records *)
FromCount(st, n) == Cardinality({j \in 1..n : st[j].instruction = FROM})

(* the counter never incremented: every FROM gets the first parent image *)
update_structure_NoCounter(st, parents) ==
  [i \in 1..Len(st) |->
     IF st[i].instruction = FROM /\ parents # <<>>
     THEN [st[i] EXCEPT !.content = Line(st[i].instruction, parents[1]),
                        !.value   = parents[1]]
     ELSE st[i]]

(* lines 181-188: the counter-th parent image goes to the counter-th FROM *)
update_structure(st, parents) ==
  [i \in 1..Len(st) |->
     IF st[i].instruction = FROM /\ FromCount(st, i) <= Len(parents)
     THEN [st[i] EXCEPT !.content = Line(st[i].instruction, parents[FromCount(st, i)]),
                        !.value   = parents[FromCount(st, i)]]
     ELSE st[i]]

expand_from_images(st, parents, reg) ==
  LET acc == pull_images(1, parse_from_image(parents), reg,
               [parents |-> parents, queried |-> {}, log |-> <<>>, err |-> "none"])
  IN  IF acc.err # "none"
      THEN [structure |-> st, parent_images |-> acc.parents, queried |-> acc.queried,
            log |-> acc.log, err |-> acc.err]
      ELSE IF FromCount(st, Len(st)) > Len(acc.parents)
      THEN [structure |-> update_structure(st, acc.parents), parent_images |-> acc.parents, queried |-> acc.queried,
            log |-> acc.log, err |-> "IndexError"]
      ELSE [structure |-> update_structure(st, acc.parents),
            parent_images |-> acc.parents, queried |-> acc.queried,
            log |-> acc.log, err |-> "none"]

----------------------------------------------------------------------------
(* Package pinning *)

expand_package(command_dict, package, version, pinning_separator) ==
  LET value == ReplaceFirst(command_dict.value, package,
                            package \o pinning_separator \o version)
  IN  [command_dict EXCEPT !.value = value,
                           !.content = Line(command_dict.instruction, value)]

----------------------------------------------------------------------------
(* Provenance annotator *)

(* lines 240-257: the log lines and the exception of one call, and the comment *)
find_git_info(line, comment) ==
  LET args == SplitOn(line, {" "})
      bad  == [msg |-> "invalid_add", arg |-> <<>>]
  IN  IF Len(args) < 2
      THEN [err |-> "IndexError", log |-> <<>>, comment_line |-> <<>>]
      ELSE IF StartsWith(args[2], chown)
      THEN [err |-> IF Len(args) < 3 THEN "IndexError" ELSE "none",
            log |-> IF Len(args) < 4 THEN <<bad>> ELSE <<>>,
            comment_line |-> check_git_src(comment)]
      ELSE [err |-> "none",
            log |-> IF Len(args) < 3 THEN <<bad>> ELSE <<>>,
            comment_line |-> check_git_src(comment)]

(* the comment appended to content only *)
annotate_ContentOnly(command_dict, comment_line) ==
  [command_dict EXCEPT
     !.content = Strip(@, "\n") \o <<" ", "#", " ">> \o comment_line \o NL]

(* lines 266-270 *)
annotate(command_dict, comment_line) ==
  [command_dict EXCEPT
     !.content = Strip(@, "\n") \o <<" ", "#", " ">> \o comment_line \o NL,
     !.value   = @ \o <<" ", "#", " ">> \o comment_line]

(* every instruction but a comment taken for an ADD *)
is_add_NotComment(command_dict) == command_dict.instruction # COMMENT

(* line 263 *)
is_add(command_dict) == command_dict.instruction = ADD

RECURSIVE add_loop(_, _, _)
add_loop(i, comment, acc) ==
  IF i > Len(acc.structure) \/ acc.err # "none" THEN acc
  ELSE IF ~is_add(acc.structure[i]) THEN add_loop(i + 1, comment, acc)
  ELSE LET r == find_git_info(acc.structure[i].content, comment)
       IN  IF r.err # "none"
           THEN [acc EXCEPT !.err = r.err, !.log = @ \o r.log]
           ELSE add_loop(i + 1, comment,
                  [acc EXCEPT !.structure[i] = annotate(@, r.comment_line),
                              !.log = @ \o r.log])

expand_add_command(st, comment) ==
  add_loop(1, comment, [structure |-> st, log |-> <<>>, err |-> "none"])

----------------------------------------------------------------------------
(* Locked-file assembler *)

RECURSIVE dfile(_)
dfile(st) == IF st = <<>> THEN <<>> ELSE Head(st).content \o dfile(Tail(st))

create_locked_dockerfile(st, parents, reg, comment) ==
  LET f == expand_from_images(st, parents, reg)
      a == expand_add_command(f.structure, comment)
  IN  IF f.err # "none"
      THEN [structure |-> f.structure, parent_images |-> f.parent_images,
            queried |-> f.queried, log |-> f.log, err |-> f.err, output |-> <<>>,
            pinned |-> FALSE]
      ELSE [structure |-> a.structure, parent_images |-> f.parent_images,
            queried |-> f.queried, log |-> f.log \o a.log, err |-> a.err,
            output |-> IF a.err = "none" THEN dfile(a.structure) ELSE <<>>,
            pinned |-> TRUE]

----------------------------------------------------------------------------
(* Parsed Dockerfiles: what get_dockerfile_obj reads from the parser *)

(* a parsed instruction line *)
Rec(instruction, value) ==
  [instruction |-> instruction, value |-> value, content |-> Line(instruction, value)]

(* a parsed comment line: the content is the line itself, "# text" *)
CommentRec(value) ==
  [instruction |-> COMMENT, value |-> value, content |-> <<"#", " ">> \o value \o NL]

Dockerfiles ==
  << (* FROM p:${V} / ARG V=3 *)
     [lines |-> << Rec(FROM, <<"p", ":", "$", "{", "V", "}">>),
                   Rec(ARG, <<"V", "=", "3">>) >>,
      env |-> <<>>],
     (* ARG B=x / ARG A=$B / RUN e $A *)
     [lines |-> << Rec(ARG, <<"B", "=", "x">>),
                   Rec(ARG, <<"A", "=", "$", "B">>),
                   Rec(RUN, <<"e", " ", "$", "A">>) >>,
      env |-> <<>>],
     (* ARG A=$B / ARG B=x / RUN e $A *)
     [lines |-> << Rec(ARG, <<"A", "=", "$", "B">>),
                   Rec(ARG, <<"B", "=", "x">>),
                   Rec(RUN, <<"e", " ", "$", "A">>) >>,
      env |-> <<>>],
     (* FROM u:1 as b / FROM p@s:d / ADD s d *)
     [lines |-> << Rec(FROM, <<"u", ":", "1", " ", "a", "s", " ", "b">>),
                   Rec(FROM, <<"p", "@", "s", ":", "d">>),
                   Rec(ADD, <<"s", " ", "d">>) >>,
      env |-> <<>>],
     (* FROM u / ADD --chown=u s d / ADD s *)
     [lines |-> << Rec(FROM, <<"u">>),
                   Rec(ADD, chown \o <<"=", "u", " ", "s", " ", "d">>),
                   Rec(ADD, <<"s">>) >>,
      env |-> <<>>],
     (* ADD s d / ADD --chown=u / ADD s d *)
     [lines |-> << Rec(ADD, <<"s", " ", "d">>),
                   Rec(ADD, chown \o <<"=", "u">>),
                   Rec(ADD, <<"s", " ", "d">>) >>,
      env |-> <<>>],
     (* ENV A=m / # $A / COPY $AB ${A} / RUN e $A *)
     [lines |-> << Rec(ENV, <<"A", "=", "m">>),
                   CommentRec(<<"$", "A">>),
                   Rec(COPY, <<"$", "A", "B", " ", "$", "{", "A", "}">>),
                   Rec(RUN, <<"e", " ", "$", "A">>) >>,
      env |-> << <<Str("A"), Str("m")>> >>],
     (* ARG V / ARG W=a=b / ARG T=1 / FROM u:$T AS c / RUN e $V $W *)
     [lines |-> << Rec(ARG, <<"V">>),
                   Rec(ARG, <<"W", "=", "a", "=", "b">>),
                   Rec(ARG, <<"T", "=", "1">>),
                   Rec(FROM, <<"u", ":", "$", "T", " ", "A", "S", " ", "c">>),
                   Rec(RUN, <<"e", " ", "$", "V", " ", "$", "W">>) >>,
      env |-> <<>>] >>

(* prev_env: the ENV mapping of an earlier build stage *)
PrevEnvs == { <<>>, << <<Str("V"), Str("2")>> >> }

(* the images the inspection collaborator can find, as name:tag *)
Registries ==
  { {},
    { <<"u", ":", "1">>, <<"u", ":">> \o latest, <<"p", ":">> \o latest } }

(* the comments the git collaborator returns *)
GitComments == { <<"g">>, <<"r", "@", "c">> }

(* the packages and versions handed to expand_package *)
Packages == { <<"e">> }

Versions == { <<"1">> }

RECURSIVE Merge(_, _)
(* the parser's envs: the parent env, then the ENV lines *)
Merge(d, more) ==
  IF more = <<>> THEN d ELSE Merge(DictSet(d, Head(more)[1], Head(more)[2]), Tail(more))

----------------------------------------------------------------------------
(* State machine *)

Init ==
  \E n \in 1..Len(Dockerfiles), pe \in PrevEnvs, reg \in Registries, gc \in GitComments :
    /\ structure = Dockerfiles[n].lines
    /\ parent_images = update_parent_images(Dockerfiles[n].lines)
    /\ envs = Merge(pe, Dockerfiles[n].env)
    /\ prev_env = pe
    /\ registry = reg
    /\ git_comment = gc
    /\ lastop = "get_dockerfile_obj"
    /\ err = "none"
    /\ log = <<>>
    /\ queried = {}
    /\ arg_dict = <<>>
    /\ output = <<>>
    /\ pre_structure = Dockerfiles[n].lines
    /\ pre_parents = update_parent_images(Dockerfiles[n].lines)
    /\ mutated = {}
    /\ rewritten = {}
    /\ nops = 0

Changed(st) == {i \in 1..Len(structure) : st[i] # structure[i]}

(* the bookkeeping every operation shares *)
Step(op, st, parents, e, l, q, rw) ==
  /\ nops < MaxOps
  /\ err = "none"
  /\ structure' = st
  /\ parent_images' = parents
  /\ lastop' = op
  /\ err' = e
  /\ log' = l
  /\ queried' = q
  /\ pre_structure' = structure
  /\ pre_parents' = parent_images
  /\ mutated' = mutated \cup Changed(st) \cup rw
  /\ rewritten' = rw
  /\ nops' = nops + 1
  /\ UNCHANGED <<envs, prev_env, registry, git_comment>>

ExpandVars ==
  /\ Step("expand_vars", expand_vars(structure, envs, prev_env), parent_images,
          "none", <<>>, {}, {})
  /\ UNCHANGED <<arg_dict, output>>

ExpandArg ==
  LET r == expand_arg(structure)
  IN  /\ Step("expand_arg", r.structure, r.parent_images, "none", <<>>, {}, {})
      /\ arg_dict' = r.arg_dict
      /\ UNCHANGED output

FromRecords(st) == {i \in 1..Len(st) : st[i].instruction = FROM}

ExpandFromImages ==
  LET r == expand_from_images(structure, parent_images, registry)
  IN  /\ Step("expand_from_images", r.structure, r.parent_images, r.err, r.log,
              r.queried, IF r.err = "none" THEN FromRecords(structure) ELSE {})
      /\ UNCHANGED <<arg_dict, output>>

ExpandPackage ==
  \E i \in 1..Len(structure), package \in Packages, version \in Versions :
    /\ structure[i].instruction = RUN
    /\ Step("expand_package",
            [structure EXCEPT ![i] = expand_package(@, package, version, <<"=">>)],
            parent_images, "none", <<>>, {}, {i})
    /\ UNCHANGED <<arg_dict, output>>

ExpandAddCommand ==
  LET r == expand_add_command(structure, git_comment)
  IN  /\ Step("expand_add_command", r.structure, parent_images, r.err, r.log, {}, {})
      /\ UNCHANGED <<arg_dict, output>>

CreateLockedDockerfile ==
  LET r == create_locked_dockerfile(structure, parent_images, registry, git_comment)
  IN  /\ Step("create_locked_dockerfile", r.structure, r.parent_images, r.err, r.log,
              r.queried, IF r.pinned THEN FromRecords(structure) ELSE {})
      /\ output' = r.output
      /\ UNCHANGED arg_dict

Next ==
  \/ ExpandVars
  \/ ExpandArg
  \/ ExpandFromImages
  \/ ExpandPackage
  \/ ExpandAddCommand
  \/ CreateLockedDockerfile

Spec == Init /\ [][Next]_vars

----------------------------------------------------------------------------
(* Vocabulary of the properties *)

(* content == instruction + " " + value + "\n" *)
Canon(rec) == rec.content = Line(rec.instruction, rec.value)

Records == 1..Len(structure)

(* the record that holds the k-th FROM instruction *)
FromAt(k) ==
  CHOOSE i \in Records : structure[i].instruction = FROM /\ FromCount(structure, i) = k

EndsWith(s, p) == Len(s) >= Len(p) /\ SubSeq(s, Len(s) - Len(p) + 1, Len(s)) = p

----------------------------------------------------------------------------
----------------------------------------------------------------------------
(* References to variables *)

Dollar(key) == <<"$">> \o key

Braced(key) == <<"$", "{">> \o key \o <<"}">>

NameChars ==
  {"A", "B", "T", "V", "W", "a", "b", "c", "d", "e", "g", "m", "p", "r", "s", "u", "x",
   "1", "2", "3"}

(* the length of the longest run of name characters of s that starts at i *)
NameRun(s, i) ==
  CHOOSE n \in 0..(Len(s) - i + 1) :
    /\ \A j \in i..(i + n - 1) : s[j] \in NameChars
    /\ (i + n <= Len(s) => s[i + n] \notin NameChars)

(* the references $NAME and ${NAME} of s, as <<name, text>> *)
Refs(s) ==
  { <<SubSeq(s, i + 1, i + NameRun(s, i + 1)), SubSeq(s, i, i + NameRun(s, i + 1))>> :
      i \in {j \in 1..Len(s) : s[j] = "$" /\ NameRun(s, j + 1) > 0} }
  \cup
  { <<SubSeq(s, i + 2, i + 1 + NameRun(s, i + 2)), SubSeq(s, i, i + 2 + NameRun(s, i + 2))>> :
      i \in {j \in 1..(Len(s) - 3) :
               /\ s[j] = "$" /\ s[j + 1] = "{" /\ NameRun(s, j + 2) > 0
               /\ j + 2 + NameRun(s, j + 2) <= Len(s)
               /\ s[j + 2 + NameRun(s, j + 2)] = "}"} }

(* the keys of the mapping the last substitution pass applied *)
PassKeys ==
  IF lastop = "expand_vars" THEN DictKeys(envs) \cup DictKeys(prev_env)
  ELSE DictKeys(arg_dict)

SubstitutionPass == lastop \in {"expand_vars", "expand_arg"}

----------------------------------------------------------------------------
(* C2: a substitution pass applied a second time with the same mapping      *)
(* leaves every value and content as the first application left them        *)
C2Original ==
  /\ lastop = "expand_vars" => expand_vars(structure, envs, prev_env) = structure
  /\ lastop = "expand_arg" => expand_arg(structure).structure = structure

----------------------------------------------------------------------------
(* C6: a substitution pass leaves the text of every reference whose name is *)
(* not a key of the mapping as it was, also when a key is a prefix of it    *)
C6Original ==
  SubstitutionPass =>
    \A i \in Records : \A r \in Refs(pre_structure[i].value) :
      r[1] \notin PassKeys =>
        /\ Contains(structure[i].value, r[2])
        /\ Contains(structure[i].content, r[2])

----------------------------------------------------------------------------
(* C10: within one pass the text inserted for one key is not replaced for   *)
(* another key of the same mapping: a reference to a key becomes that key's *)
(* value, whatever the order of the keys                                    *)
C10Original ==
  lastop = "expand_arg" =>
    \A i \in Records : \A r \in Refs(pre_structure[i].value) :
      r[1] \in DictKeys(arg_dict) =>
        Contains(structure[i].value, DictGet(arg_dict, r[1]))

----------------------------------------------------------------------------
(* Vocabulary of the pinning properties *)

Pinning == lastop \in {"expand_from_images", "create_locked_dockerfile"}

(* the parent images the last call started from *)
Parents == 1..Len(pre_parents)

(* both digest_type and digest set *)
AlreadyPinned(image_string) ==
  /\ parse_image_string(image_string).digest_type # <<>>
  /\ parse_image_string(image_string).digest # <<>>

(* the name:tag an unpinned parent image is looked up by *)
LookupRef(image_string) ==
  LET img == parse_image_string(image_string)
  IN  img.name \o <<":">> \o (IF img.tag = <<>> THEN latest ELSE img.tag)

(* the inspection collaborator returns no image for the k-th parent image *)
LookupFails(k) == k \in queried /\ LookupRef(pre_parents[k]) \notin registry

----------------------------------------------------------------------------
(* C3: len(parent_images) is the number of FROM instructions, and on return *)
(* from expand_from_images the i-th FROM's value is parent_images[i]        *)
C3Positional ==
  /\ Len(parent_images) = Cardinality({i \in Records : structure[i].instruction = FROM})
  /\ (lastop = "expand_from_images" /\ err = "none") =>
       \A k \in 1..Len(parent_images) : structure[FromAt(k)].value = parent_images[k]

C3Witness ==
  /\ lastop = "expand_from_images"
  /\ Len(parent_images) = 2
  /\ parent_images[1] # parent_images[2]
  /\ parent_images[1] # pre_parents[1]
  /\ structure[FromAt(2)].value = parent_images[2]

----------------------------------------------------------------------------
(* C4: when the lookup of a parent image fails, expand_from_images does not *)
(* abort, leaves the parent_images entry, and leaves the FROM line's value  *)
(* and content as they were, alias included; the other FROMs are processed  *)
C4Original ==
  lastop = "expand_from_images" =>
    /\ err = "none"
    /\ \A k \in Parents :
         IF LookupFails(k)
         THEN /\ parent_images[k] = pre_parents[k]
              /\ structure[FromAt(k)].value = pre_structure[FromAt(k)].value
              /\ structure[FromAt(k)].content = pre_structure[FromAt(k)].content
         ELSE structure[FromAt(k)].value = parent_images[k]

----------------------------------------------------------------------------
(* C5: a parent image with digest_type and digest both set is not passed to *)
(* get_image, and its parent_images entry is left as it was                 *)
C5NeverRequeried ==
  Pinning =>
    \A k \in Parents :
      AlreadyPinned(pre_parents[k]) => k \notin queried /\ parent_images[k] = pre_parents[k]

C5Witness ==
  /\ lastop = "expand_from_images"
  /\ \E k \in Parents : AlreadyPinned(pre_parents[k]) /\ LookupRef(pre_parents[k]) \in registry
  /\ \E k \in Parents : ~AlreadyPinned(pre_parents[k]) /\ k \in queried

----------------------------------------------------------------------------
(* Vocabulary of the annotation properties *)

Annotating == lastop \in {"expand_add_command", "create_locked_dockerfile"}

AddRecords == {i \in Records : pre_structure[i].instruction = ADD}

Tokens(rec) == SplitOn(rec.content, {" "})

(* fewer than 3 tokens, or fewer than 4 when the first argument is --chown *)
TooFewTokens(rec) ==
  \/ Len(Tokens(rec)) < 3
  \/ Len(Tokens(rec)) < 4 /\ StartsWith(Tokens(rec)[2], chown)

(* the provenance comment of the last call *)
Provenance == <<" ", "#", " ">> \o git_comment

----------------------------------------------------------------------------
(* C7: for an ADD instruction with too few tokens expand_add_command logs   *)
(* an invalid-command error and does not raise: every ADD instruction gets  *)
(* its comment and create_locked_dockerfile returns the output text         *)
C7Original ==
  (Annotating /\ \E i \in AddRecords : TooFewTokens(pre_structure[i])) =>
    /\ err = "none"
    /\ \E n \in 1..Len(log) : log[n].msg = "invalid_add"
    /\ \A i \in AddRecords :
         /\ EndsWith(structure[i].value, Provenance)
         /\ EndsWith(structure[i].content, Provenance \o NL)
    /\ lastop = "create_locked_dockerfile" => output = dfile(structure)

----------------------------------------------------------------------------
(* C8: expand_from_images, expand_add_command and create_locked_dockerfile  *)
(* run a second time, the collaborators answering the same, leave the       *)
(* structure, parent_images and the output as the first run left them       *)
C8Original ==
  /\ (lastop = "expand_from_images" /\ err = "none") =>
       LET r == expand_from_images(structure, parent_images, registry)
       IN  r.structure = structure /\ r.parent_images = parent_images
  /\ (lastop = "expand_add_command" /\ err = "none") =>
       expand_add_command(structure, git_comment).structure = structure
  /\ (lastop = "create_locked_dockerfile" /\ err = "none") =>
       LET r == create_locked_dockerfile(structure, parent_images, registry, git_comment)
       IN  r.structure = structure /\ r.parent_images = parent_images /\ r.output = output

----------------------------------------------------------------------------
(* Vocabulary of the ARG properties *)

Count(s, c) == Cardinality({i \in 1..Len(s) : s[i] = c})

(* the ARG instructions with exactly one '=', anywhere in the list *)
ArgDefaults ==
  {i \in Records : pre_structure[i].instruction = ARG /\ Count(pre_structure[i].value, "=") = 1}

ArgKey(i) == Strip(SplitOn(pre_structure[i].value, {"="})[1], " ")

ArgVal(i) == Strip(SplitOn(pre_structure[i].value, {"="})[2], " ")

(* p is s cut at its stage alias *)
CutAtAlias(p, s) ==
  /\ StartsWith(s, p)
  /\ ~Contains(LowerStr(p), <<" ", "a", "s">>)
  /\ (p # s => LowerStr(SubSeq(s, Len(p) + 1, Len(p) + 3)) = <<" ", "a", "s">>)

(* the FROM record i refers to the key of the ARG record j *)
RefersTo(i, j) ==
  \/ Contains(pre_structure[i].value, Dollar(ArgKey(j)))
  \/ Contains(pre_structure[i].value, Braced(ArgKey(j)))

----------------------------------------------------------------------------
(* C9: expand_arg builds the ARG dictionary from all ARG instructions with  *)
(* exactly one '=' before it substitutes, so an ARG declared after a FROM   *)
(* substitutes into that FROM; on return parent_images[i] is the            *)
(* substituted value of the i-th FROM cut at the stage alias                *)
C9ArgBeforeFrom ==
  lastop = "expand_arg" =>
    /\ DictKeys(arg_dict) = {ArgKey(j) : j \in ArgDefaults}
    /\ \A j \in ArgDefaults :
         (\A l \in ArgDefaults : l > j => ArgKey(l) # ArgKey(j)) =>
           DictGet(arg_dict, ArgKey(j)) = ArgVal(j)
    /\ \A i \in Records : \A j \in ArgDefaults :
         (pre_structure[i].instruction = FROM /\ RefersTo(i, j)) =>
           /\ ~Contains(structure[i].value, Dollar(ArgKey(j)))
           /\ ~Contains(structure[i].value, Braced(ArgKey(j)))
           /\ Contains(structure[i].value, ArgVal(j))
    /\ Len(parent_images) = Cardinality({i \in Records : structure[i].instruction = FROM})
    /\ \A k \in 1..Len(parent_images) :
         CutAtAlias(parent_images[k], structure[FromAt(k)].value)

C9Witness ==
  /\ lastop = "expand_arg"
  /\ \E i \in Records : \E j \in ArgDefaults :
       /\ pre_structure[i].instruction = FROM
       /\ i < j
       /\ RefersTo(i, j)
       /\ parent_images[FromCount(structure, i)] # pre_parents[FromCount(structure, i)]

(* C8, amended: expand_from_images run a second time, the collaborator     *)
(* answering the same, leaves structure and parent_images as the first run  *)
(* left them; expand_add_command (and so create_locked_dockerfile) run a    *)
(* second time appends one more provenance comment to the value and the     *)
(* content of every ADD instruction and changes nothing else.               *)
OneMoreComment(st) ==
  \A i \in Records :
    IF structure[i].instruction = ADD
    THEN /\ st[i].instruction = ADD
         /\ st[i].value = structure[i].value \o Provenance
         /\ st[i].content =
              SubSeq(structure[i].content, 1, Len(structure[i].content) - 1)
                \o Provenance \o NL
    ELSE st[i] = structure[i]

C8Amended ==
  /\ (lastop = "expand_from_images" /\ err = "none") =>
       LET r == expand_from_images(structure, parent_images, registry)
       IN  r.structure = structure /\ r.parent_images = parent_images /\ r.err = "none"
  /\ (lastop = "expand_add_command" /\ err = "none") =>
       LET r == expand_add_command(structure, git_comment)
       IN  OneMoreComment(r.structure) /\ r.err = "none"
  /\ (lastop = "create_locked_dockerfile" /\ err = "none") =>
       LET r == create_locked_dockerfile(structure, parent_images, registry, git_comment)
       IN  /\ OneMoreComment(r.structure)
           /\ r.parent_images = parent_images
           /\ r.err = "none"
           /\ r.output = dfile(r.structure)

C8Witness ==
  /\ lastop = "create_locked_dockerfile"
  /\ err = "none"
  /\ \E i \in Records : structure[i].instruction = ADD /\ EndsWith(structure[i].value, Provenance)
  /\ \E k \in Parents : parent_images[k] # pre_parents[k]
  /\ output # <<>>

====
